---- MODULE Spec2Model ----
(***************************************************************************)
(* A model of the Mastermind solving engine of src/mastermind.py:          *)
(* calculate_feedback, the MastermindGame session (construction,           *)
(* play_turn, next_guess, _minimax_guess) and the guessing loop of         *)
(* run_game.  The pygame presentation code is not modelled.                *)
(*                                                                         *)
(* A symbol is a colour name (a string), a code is a tuple of symbols, a   *)
(* feedback is the pair <<correct_position, correct_color>>.  Python lists *)
(* (all_codes, possible_codes, guesses, feedbacks) are sequences, so that  *)
(* enumeration order, which decides the minimax tie-break, is kept.        *)
(***************************************************************************)
EXTENDS Integers, Sequences, FiniteSets

VARIABLES
    allow_duplicates,   \* self.allow_duplicates
    code_length,        \* self.code_length
    all_codes,          \* self.all_codes
    secret_code,        \* self.secret_code
    possible_codes,     \* self.possible_codes
    guesses,            \* self.guesses
    feedbacks,          \* self.feedbacks
    guess,              \* the caller's variable `guess` (run_game), None before the first
    solved,             \* the caller's variable `solved`: what the last play_turn returned
    op,                 \* the operation executed last
    pc,                 \* the caller's position in the loop of run_game
    fb_guess,           \* calculate_feedback's first argument  (SpecFeedback)
    fb_code,            \* calculate_feedback's second argument (SpecFeedback)
    fb_result,          \* calculate_feedback(fb_guess, fb_code), << >> before the call
    fb_reverse          \* calculate_feedback(fb_code, fb_guess), << >> before the call

session == <<allow_duplicates, code_length, all_codes, secret_code,
             possible_codes, guesses, feedbacks>>
caller == <<guess, solved, op, pc>>
pure == <<fb_guess, fb_code, fb_result, fb_reverse>>
vars == <<session, caller, pure>>

(***************************************************************************)
(* Bounds of the model.                                                    *)
(***************************************************************************)
\* play_turn calls explored per session in Spec.
MaxTurns == 2
\* The colours a caller of Spec builds its guesses from.
GuessAlphabet == <<"Red", "Green">>
\* The secrets SpecAutoplay draws, spread over the enumeration of the universe.
NumSecrets == 10
\* play_turn calls explored per game in SpecAutoplay.
MaxAutoTurns == 8
\* The code lengths Spec constructs sessions with.
CodeLengths == {1, 2}
\* The code lengths SpecConstruct calls the constructor with.
ConstructLengths == {1, 2, 3, 7}

(***************************************************************************)
(* Constants of the program.                                               *)
(***************************************************************************)
COLORS == <<"Red", "Green", "Yellow", "Blue", "Purple", "Orange">>
CODE_LENGTH == 4
\* Python's None, as a value comparable with a code.
None == <<"None">>
\* float('inf'), the initial min_max_eliminations: a value no count takes.
INF == -1

Min(a, b) == IF a < b THEN a ELSE b

Range(s) == {s[i] : i \in 1..Len(s)}

\* max() of a non-empty collection of integers (Python raises ValueError on an
\* empty one; here the CHOOSE then has no value).
Max(S) == CHOOSE m \in S : \A x \in S : x <= m

(***************************************************************************)
(* calculate_feedback                                                      *)
(***************************************************************************)
\* t.count(c)
count(t, c) == Cardinality({i \in 1..Len(t) : t[i] = c})

\* sum(min(guess.count(color), code.count(color)) for color in colors)
RECURSIVE SumMinCounts(_, _, _)
SumMinCounts(colors, g, code) ==
    IF colors = {} THEN 0
    ELSE LET color == CHOOSE x \in colors : TRUE
         IN Min(count(g, color), count(code, color))
            + SumMinCounts(colors \ {color}, g, code)

\* sum(g == c for g, c in zip(guess, code)): zip stops at the shorter tuple.
correct_position(g, code) ==
    Cardinality({i \in 1..Min(Len(g), Len(code)) : g[i] = code[i]})

\* sum(min(guess.count(color), code.count(color)) for color in guess)
RECURSIVE SumMinCountsPerPeg(_, _, _)
SumMinCountsPerPeg(i, g, code) ==
    IF i > Len(g) THEN 0
    ELSE Min(count(g, g[i]), count(code, g[i])) + SumMinCountsPerPeg(i + 1, g, code)

\* A variant that iterates over guess, not over set(guess).
calculate_feedback_PerPeg(g, code) ==
    LET cp == correct_position(g, code)
    IN <<cp, SumMinCountsPerPeg(1, g, code) - cp>>
\* sum(guess.count(color) for color in colors if color in code)
RECURSIVE SumGuessCounts(_, _, _)
SumGuessCounts(colors, g, code) ==
    IF colors = {} THEN 0
    ELSE LET color == CHOOSE x \in colors : TRUE
         IN (IF count(code, color) > 0 THEN count(g, color) ELSE 0)
            + SumGuessCounts(colors \ {color}, g, code)

\* A variant that counts every peg of a colour the code holds, without the min().
calculate_feedback_NoMin(g, code) ==
    LET cp == correct_position(g, code)
    IN <<cp, SumGuessCounts(Range(g), g, code) - cp>>
\* A variant that does not subtract the exact matches.
calculate_feedback_NoSubtract(g, code) ==
    <<correct_position(g, code), SumMinCounts(Range(g), g, code)>>
calculate_feedback(g, code) ==
    LET cp == correct_position(g, code)
        cc == SumMinCounts(Range(g), g, code) - cp
    IN <<cp, cc>>

(***************************************************************************)
(* MastermindGame.__init__                                                 *)
(***************************************************************************)
\* list(itertools.product(COLORS, repeat=n)): the rightmost position advances
\* fastest.
\* A variant whose leftmost position advances fastest.
RECURSIVE product_LeftFastest(_)
product_LeftFastest(n) ==
    IF n = 0 THEN << <<>> >>
    ELSE LET prev == product_LeftFastest(n - 1)
             k == Len(COLORS)
         IN [j \in 1..(Len(prev) * k) |->
                <<COLORS[((j - 1) % k) + 1]>> \o prev[((j - 1) \div k) + 1]]
RECURSIVE product(_)
product(n) ==
    IF n = 0 THEN << <<>> >>
    ELSE LET prev == product(n - 1)
             k == Len(COLORS)
         IN [j \in 1..(Len(prev) * k) |->
                Append(prev[((j - 1) \div k) + 1], COLORS[((j - 1) % k) + 1])]

Distinct(t) == \A i, j \in 1..Len(t) : i # j => t[i] # t[j]

\* list(itertools.permutations(COLORS, n)): the tuples of product in the same
\* order, without those that repeat a position; the colours of COLORS differ.
\* itertools yields no tuple when n exceeds the number of colours.
permutations(n) ==
    IF n > Len(COLORS) THEN << >> ELSE SelectSeq(product(n), Distinct)

\* A variant that never refuses a sample.
SampleRaises_Never(n) == FALSE
\* random.sample(COLORS, n) raises ValueError when n exceeds the population.
SampleRaises(n) == n > Len(COLORS)

\* The values tuple(random.sample(COLORS, n)) can take.
random_sample(n) == Range(permutations(n))

universe(ad, cl) == IF ad THEN product(cl) ELSE permutations(cl)

\* The state of a session after MastermindGame(ad, cl), its secret being sc.
MastermindGame(ad, cl, sc) ==
    [allow_duplicates |-> ad,
     code_length      |-> cl,
     all_codes        |-> universe(ad, cl),
     secret_code      |-> sc,
     possible_codes   |-> universe(ad, cl),
     guesses          |-> << >>,
     feedbacks        |-> << >>]

(***************************************************************************)
(* MastermindGame.play_turn                                                *)
(***************************************************************************)
\* A variant that takes any permutation of the secret for the secret.
IsSolved_AnyOrder(feedback, cl) == feedback[1] + feedback[2] = cl
\* A variant that writes the pair the other way round.
IsSolved_Swapped(feedback, cl) == feedback = <<0, cl>>
\* feedback == (self.code_length, 0)
IsSolved(feedback, cl) == feedback = <<cl, 0>>

\* A variant that keeps the codes the feedback rules out.
Filter_Inverted(codes, g, feedback) ==
    SelectSeq(codes, LAMBDA code : calculate_feedback(g, code) # feedback)
\* [code for code in codes if calculate_feedback(guess, code) == feedback]
Filter(codes, g, feedback) ==
    SelectSeq(codes, LAMBDA code : calculate_feedback(g, code) = feedback)

\* A variant that filters the whole universe, not the remaining candidates.
FilterSource_AllCodes == all_codes
\* The list play_turn filters.
FilterSource == possible_codes

\* A variant that never filters possible_codes.
play_turn_NoFilter(g) ==
    LET feedback == calculate_feedback(g, secret_code)
    IN /\ guesses' = Append(guesses, g)
       /\ feedbacks' = Append(feedbacks, feedback)
       /\ solved' = IsSolved(feedback, code_length)
       /\ UNCHANGED <<allow_duplicates, code_length, all_codes, secret_code,
                      possible_codes>>
\* A variant that puts the new turn in front of the history.
play_turn_Prepends(g) ==
    LET feedback == calculate_feedback(g, secret_code)
    IN /\ guesses' = <<g>> \o guesses
       /\ feedbacks' = <<feedback>> \o feedbacks
       /\ IF IsSolved(feedback, code_length)
          THEN /\ solved' = TRUE
               /\ possible_codes' = possible_codes
          ELSE /\ possible_codes' = Filter(FilterSource, g, feedback)
               /\ solved' = FALSE
       /\ UNCHANGED <<allow_duplicates, code_length, all_codes, secret_code>>
\* A variant that filters before it looks whether the game is solved.
play_turn_FilterFirst(g) ==
    LET feedback == calculate_feedback(g, secret_code)
    IN /\ guesses' = Append(guesses, g)
       /\ feedbacks' = Append(feedbacks, feedback)
       /\ possible_codes' = Filter(FilterSource, g, feedback)
       /\ solved' = IsSolved(feedback, code_length)
       /\ UNCHANGED <<allow_duplicates, code_length, all_codes, secret_code>>
\* play_turn(g): the session's next state, and the value returned in solved'.
play_turn(g) ==
    LET feedback == calculate_feedback(g, secret_code)
    IN /\ guesses' = Append(guesses, g)
       /\ feedbacks' = Append(feedbacks, feedback)
       /\ IF IsSolved(feedback, code_length)
          THEN /\ solved' = TRUE
               /\ possible_codes' = possible_codes
          ELSE /\ possible_codes' = Filter(FilterSource, g, feedback)
               /\ solved' = FALSE
       /\ UNCHANGED <<allow_duplicates, code_length, all_codes, secret_code>>

(***************************************************************************)
(* MastermindGame.next_guess and _minimax_guess                            *)
(***************************************************************************)
\* max(feedback_counts.values()) for guess g: feedback_counts maps each feedback
\* of g against a code of codes to the number of codes that give it.
max_eliminations(g, codes) ==
    LET scored == {<<i, calculate_feedback(g, codes[i])>> : i \in 1..Len(codes)}
        feedback_counts == [f \in {p[2] : p \in scored} |->
                               Cardinality({p \in scored : p[2] = f})]
    IN Max({feedback_counts[f] : f \in DOMAIN feedback_counts})

\* A variant that takes a guess that is worse than the best so far.
Improves_Reversed(max_elim, min_max) == min_max = INF \/ max_elim > min_max
\* A variant that also takes a guess that is as good as the best so far.
Improves_OrEqual(max_elim, min_max) == min_max = INF \/ max_elim <= min_max
\* max_eliminations < min_max_eliminations
Improves(max_elim, min_max) == min_max = INF \/ max_elim < min_max

\* A variant that searches the remaining candidates only.
GuessUniverse_Candidates == possible_codes
\* The list _minimax_guess iterates over.
GuessUniverse == all_codes

\* The loop of _minimax_guess over univ, worst[i] being max_eliminations of the
\* i-th iteration.  When iteration i starts, min_max_eliminations is the least
\* of worst[1..i-1] (INF in the first iteration); the iteration assigns
\* best_guess when worst[i] improves on it; the loop returns the value of the
\* last assignment, or None when there was none.
MinimaxLoop(univ, worst) ==
    LET min_max_eliminations(i) ==
            IF i = 1 THEN INF
            ELSE LET seen == {worst[j] : j \in 1..(i - 1)}
                 IN CHOOSE m \in seen : \A x \in seen : m <= x
        assigned == {i \in 1..Len(univ) : Improves(worst[i], min_max_eliminations(i))}
    IN IF assigned = {} THEN None ELSE univ[Max(assigned)]

minimax_guess ==
    LET univ == GuessUniverse
        worst == SubSeq([i \in 1..Len(univ) |-> max_eliminations(univ[i], possible_codes)],
                        1, Len(univ))
    IN MinimaxLoop(univ, worst)

\* A variant without the shortcut for a single candidate.
next_guess_NoShortcut == minimax_guess
\* A variant that does not return a guess the history already holds.
next_guess_Fresh ==
    IF Len(possible_codes) = 1 THEN possible_codes[1]
    ELSE IF minimax_guess \in Range(guesses) THEN possible_codes[Len(possible_codes)]
    ELSE minimax_guess
\* The value next_guess returns.
next_guess ==
    IF Len(possible_codes) = 1 THEN possible_codes[1] ELSE minimax_guess

(***************************************************************************)
(* Spec: a session used through its operations by an arbitrary caller      *)
(***************************************************************************)
PureIdle ==
    /\ fb_guess = << >>
    /\ fb_code = << >>
    /\ fb_result = << >>
    /\ fb_reverse = << >>

Constructed(game) ==
    /\ allow_duplicates = game.allow_duplicates
    /\ code_length = game.code_length
    /\ all_codes = game.all_codes
    /\ secret_code = game.secret_code
    /\ possible_codes = game.possible_codes
    /\ guesses = game.guesses
    /\ feedbacks = game.feedbacks

Init ==
    /\ \E ad \in BOOLEAN, cl \in CodeLengths :
          \E sc \in random_sample(cl) : Constructed(MastermindGame(ad, cl, sc))
    /\ guess = None
    /\ solved = FALSE
    /\ op = "init"
    /\ pc = "api"
    /\ PureIdle

\* The tuples of length n over the colours of the sequence alphabet.
RECURSIVE TuplesOver(_, _)
TuplesOver(n, alphabet) ==
    IF n = 0 THEN {<< >>}
    ELSE {Append(t, c) : t \in TuplesOver(n - 1, alphabet), c \in Range(alphabet)}

\* The guesses a caller submits: tuples of the right length over some colours
\* (with repeated colours too), a guess one peg short, one a peg long, and one
\* with a colour that is not in COLORS.
GuessInputs(cl) ==
    TuplesOver(cl, GuessAlphabet)
        \cup {SubSeq(COLORS, 1, cl - 1), SubSeq(COLORS, 1, cl + 1)}
        \cup {[i \in 1..cl |-> IF i = 1 THEN "Black" ELSE COLORS[i - 1]]}

\* A caller submits a guess of its own.
PlayTurn ==
    /\ Len(guesses) < MaxTurns
    /\ \E g \in GuessInputs(code_length) :
          /\ play_turn(g)
          /\ guess' = g
    /\ op' = "play_turn"
    /\ UNCHANGED <<pc, pure>>

\* A variant whose next_guess takes the code it returns out of possible_codes.
NextGuess_Consumes ==
    /\ op # "next_guess"
    /\ guess' = next_guess
    /\ op' = "next_guess"
    /\ possible_codes' = SelectSeq(possible_codes, LAMBDA code : code # next_guess)
    /\ UNCHANGED <<allow_duplicates, code_length, all_codes, secret_code,
                   guesses, feedbacks, solved, pc, pure>>
\* A caller asks for the recommended guess.
NextGuess ==
    /\ op # "next_guess"
    /\ guess' = next_guess
    /\ op' = "next_guess"
    /\ UNCHANGED <<session, solved, pc, pure>>

\* A caller submits the guess next_guess recommended.
PlayNextGuess ==
    /\ Len(guesses) < MaxTurns
    /\ op = "next_guess"
    /\ play_turn(guess)
    /\ op' = "play_turn"
    /\ UNCHANGED <<guess, pc, pure>>

Next == PlayTurn \/ NextGuess \/ PlayNextGuess

Spec == Init /\ [][Next]_vars

(***************************************************************************)
(* SpecFeedback: calculate_feedback applied to pairs of equal-length codes *)
(***************************************************************************)
NoSession ==
    /\ allow_duplicates = TRUE
    /\ code_length = 0
    /\ all_codes = << >>
    /\ secret_code = << >>
    /\ possible_codes = << >>
    /\ guesses = << >>
    /\ feedbacks = << >>
    /\ guess = None
    /\ solved = FALSE

InitFeedback ==
    /\ \E n \in 1..CODE_LENGTH :
          /\ fb_guess \in TuplesOver(n, COLORS)
          /\ fb_code \in TuplesOver(n, COLORS)
    /\ fb_result = << >>
    /\ fb_reverse = << >>
    /\ NoSession
    /\ op = "init"
    /\ pc = "pure"

\* The pair is scored, and scored again with the arguments exchanged.
Score ==
    /\ fb_result = << >>
    /\ fb_result' = calculate_feedback(fb_guess, fb_code)
    /\ fb_reverse' = calculate_feedback(fb_code, fb_guess)
    /\ op' = "calculate_feedback"
    /\ UNCHANGED <<session, guess, solved, pc, fb_guess, fb_code>>

NextFeedback == Score

SpecFeedback == InitFeedback /\ [][NextFeedback]_vars

(***************************************************************************)
(* SpecAutoplay: the guessing loop of run_game for a session without       *)
(* duplicates, and the same loop with the opening taken from next_guess    *)
(***************************************************************************)
\* initial_guess of run_game: COLORS[0] in the first half, COLORS[1] after it.
initial_guess ==
    LET half_length == CODE_LENGTH \div 2
    IN [i \in 1..CODE_LENGTH |-> IF i - 1 < half_length THEN COLORS[1] ELSE COLORS[2]]

\* The secrets drawn: NumSecrets values of random.sample, evenly spread over
\* the enumeration of the permutations.
SecretSample ==
    LET perms == permutations(CODE_LENGTH)
        stride == Len(perms) \div NumSecrets
    IN {perms[1 + j * stride] : j \in 0..(NumSecrets - 1)}

InitAutoplay ==
    /\ \E sc \in SecretSample : Constructed(MastermindGame(FALSE, CODE_LENGTH, sc))
    /\ guess = None
    /\ solved = FALSE
    /\ op = "init"
    /\ pc = "choose"
    /\ PureIdle

\* run_game, lines 315-323: no guess has been made, the fixed opening is used.
OpeningGuess ==
    /\ pc = "choose"
    /\ guesses = << >>
    /\ guess' = initial_guess
    /\ pc' = "submit"
    /\ UNCHANGED <<session, solved, op, pure>>

\* run_game, line 326: guess = game.next_guess(); a caller that does not seed
\* the opening takes this step on the first turn too.
SelectGuess ==
    /\ pc = "choose"
    /\ guess' = next_guess
    /\ op' = "next_guess"
    /\ pc' = "submit"
    /\ UNCHANGED <<session, solved, pure>>

\* run_game, line 328: solved = game.play_turn(guess), and the loop test.
SubmitGuess ==
    /\ pc = "submit"
    /\ Len(guesses) < MaxAutoTurns
    /\ play_turn(guess)
    /\ op' = "play_turn"
    /\ pc' = IF solved' THEN "done" ELSE "choose"
    /\ UNCHANGED <<guess, pure>>

NextAutoplay == OpeningGuess \/ SelectGuess \/ SubmitGuess

\* The loop is synchronous and never blocks: a step that can be taken is taken.
SpecAutoplay == InitAutoplay /\ [][NextAutoplay]_vars /\ WF_vars(NextAutoplay)

(***************************************************************************)
(* SpecConstruct: MastermindGame.__init__ as a step that returns a session *)
(* or raises                                                               *)
(***************************************************************************)
\* The constructor has stored its arguments (lines 80-81); no other attribute
\* of the object exists yet.
InitConstruct ==
    /\ allow_duplicates \in BOOLEAN
    /\ code_length \in ConstructLengths
    /\ all_codes = << >>
    /\ secret_code = << >>
    /\ possible_codes = << >>
    /\ guesses = << >>
    /\ feedbacks = << >>
    /\ guess = None
    /\ solved = FALSE
    /\ op = "init"
    /\ pc = "new"
    /\ PureIdle

\* Lines 82-90 when random.sample returns: the caller receives the session.
ConstructSession ==
    /\ pc = "new"
    /\ ~SampleRaises(code_length)
    /\ \E sc \in random_sample(code_length) :
          /\ secret_code' = sc
          /\ LET game == MastermindGame(allow_duplicates, code_length, sc)
             IN /\ all_codes' = game.all_codes
                /\ possible_codes' = game.possible_codes
                /\ guesses' = game.guesses
                /\ feedbacks' = game.feedbacks
    /\ op' = "__init__"
    /\ pc' = "constructed"
    /\ UNCHANGED <<allow_duplicates, code_length, guess, solved, pure>>

\* Lines 82-87 when random.sample raises: all_codes has been assigned, the
\* ValueError leaves __init__ and the caller receives no object.
ConstructRaises ==
    /\ pc = "new"
    /\ SampleRaises(code_length)
    /\ all_codes' = universe(allow_duplicates, code_length)
    /\ op' = "ValueError"
    /\ pc' = "raised"
    /\ UNCHANGED <<allow_duplicates, code_length, secret_code, possible_codes,
                   guesses, feedbacks, guess, solved, pure>>

NextConstruct == ConstructSession \/ ConstructRaises

SpecConstruct == InitConstruct /\ [][NextConstruct]_vars

(***************************************************************************)
(* Properties                                                              *)
(***************************************************************************)
Last(seq) == seq[Len(seq)]

\* C1: whatever guesses have been submitted, the secret code is one of
\* possible_codes.
C1_SecretRetained == secret_code \in Range(possible_codes)

\* Two turns were played, neither solved the game, and both removed candidates.
C1_Witness ==
    /\ op = "play_turn"
    /\ Len(guesses) = 2
    /\ \A i \in 1..2 : feedbacks[i] # <<code_length, 0>>
    /\ Len(possible_codes) > 1
    /\ Len(possible_codes) < Len(Filter(all_codes, guesses[1], feedbacks[1]))

\* C2: the loop that submits the guesses of next_guess (after the fixed opening
\* or from the first turn on) reaches solved = True, within as many turns as the
\* universe has codes, and possible_codes is never empty: the loop ends only
\* with solved = True, and until then its next step can always be taken.
C2_AutoplaySolves ==
    /\ possible_codes # << >>
    /\ Len(guesses) <= Len(all_codes)
    /\ pc = "done" <=> solved
    /\ pc = "submit" => Len(guesses) < MaxAutoTurns

\* A game the fixed opening started is solved by a later guess of next_guess.
C2_Witness ==
    /\ pc = "done"
    /\ solved
    /\ guesses[1] = initial_guess
    /\ Len(guesses) >= 4
    /\ Last(guesses) = secret_code

\* The size of the largest class of the set candidates partitioned by score
\* against g.
WorstCaseOver(g, candidates) ==
    LET scored == {<<code, calculate_feedback(g, code)>> : code \in candidates}
    IN Max({Cardinality({p \in scored : p[2] = f}) : f \in {q[2] : q \in scored}})

\* The size of the largest class of the candidates partitioned by their score
\* against g.
WorstCase(g) == WorstCaseOver(g, Range(possible_codes))

\* C3: with more than one candidate, next_guess returns the first code of
\* all_codes, in its order, whose worst case is the least over all of all_codes.
C3_MinimaxFirst ==
    (op = "next_guess" /\ Len(possible_codes) > 1) =>
        LET worst == SubSeq([j \in 1..Len(all_codes) |-> WorstCase(all_codes[j])],
                            1, Len(all_codes))
        IN \E k \in 1..Len(all_codes) :
              /\ guess = all_codes[k]
              /\ \A j \in 1..Len(all_codes) : worst[k] <= worst[j]
              /\ \A j \in 1..(k - 1) : worst[k] < worst[j]

\* next_guess returned a code that is no longer a candidate.
C3_Witness ==
    /\ op = "next_guess"
    /\ Len(guesses) >= 1
    /\ Len(possible_codes) > 2
    /\ guess \in Range(all_codes) \ Range(possible_codes)

\* The classical score: the first pass takes the positions that match exactly,
\* the second gives every other peg of the guess, in turn, a peg of the code of
\* its colour that no pass has taken yet.
ExactPositions(g, code) == {i \in 1..Len(g) : g[i] = code[i]}

RECURSIVE SecondPass(_, _, _, _)
SecondPass(i, taken, g, code) ==
    IF i > Len(g) THEN 0
    ELSE IF i \in ExactPositions(g, code) THEN SecondPass(i + 1, taken, g, code)
    ELSE LET free == {j \in (1..Len(code)) \ (ExactPositions(g, code) \cup taken) :
                         code[j] = g[i]}
         IN IF free = {} THEN SecondPass(i + 1, taken, g, code)
            ELSE 1 + SecondPass(i + 1, taken \cup {CHOOSE j \in free : TRUE}, g, code)

C5_Symmetric == fb_result # << >> => fb_result = fb_reverse

\* A scored pair whose codes repeat colours and hold different sets of colours.
C5_Witness ==
    /\ fb_result # << >>
    /\ Len(fb_guess) = CODE_LENGTH
    /\ ~Distinct(fb_guess)
    /\ Distinct(fb_code)
    /\ Range(fb_guess) # Range(fb_code)
    /\ fb_result[2] > 0

\* C6: 0 <= exact <= L, colorOnly >= 0 and exact + colorOnly <= L.
C6_FeedbackBounds ==
    fb_result # << >> =>
        /\ 0 <= fb_result[1]
        /\ fb_result[1] <= Len(fb_code)
        /\ 0 <= fb_result[2]
        /\ fb_result[1] + fb_result[2] <= Len(fb_code)

\* A scored pair that reaches the upper bound with misplaced pegs.
C6_Witness ==
    /\ fb_result # << >>
    /\ Len(fb_code) = CODE_LENGTH
    /\ fb_result[1] > 0
    /\ fb_result[2] > 0
    /\ fb_result[1] + fb_result[2] = CODE_LENGTH

\* C7: no step adds a code to possible_codes.
C7_NeverGrows ==
    [][/\ Range(possible_codes') \subseteq Range(possible_codes)
       /\ Len(possible_codes') <= Len(possible_codes)]_vars

\* The second turn removed candidates the first had left.
C7_Witness ==
    /\ Len(guesses) = 2
    /\ Len(possible_codes) < Len(Filter(all_codes, guesses[1], feedbacks[1]))
    /\ Len(Filter(all_codes, guesses[1], feedbacks[1])) < Len(all_codes)

\* The codes of all_codes that score feedbacks[i] against guesses[i] for every
\* turn i of turns.
ConsistentWith(turns) ==
    SelectSeq(all_codes,
              LAMBDA code : \A i \in turns : calculate_feedback(guesses[i], code) = feedbacks[i])

C9_SolvedIffFullMatch ==
    op = "play_turn" =>
        /\ solved <=> (Last(feedbacks) = <<code_length, 0>>)
        /\ Len(Last(guesses)) = code_length =>
              (solved <=> (Last(guesses) = secret_code))

\* The second turn submitted the secret code.
C9_Witness ==
    /\ op = "play_turn"
    /\ Len(guesses) = 2
    /\ guesses[1] # secret_code
    /\ guesses[2] = secret_code
    /\ solved

\* A guess of the session's length, over the alphabet, that keeps to the
\* duplicate policy.
ValidGuess(g) ==
    /\ Len(g) = code_length
    /\ \A i \in 1..Len(g) : g[i] \in Range(COLORS)
    /\ allow_duplicates \/ Distinct(g)

\* C10: a play_turn whose guess is invalid leaves the history and the candidate
\* set as they were.
C10_InvalidGuessRejected ==
    [][(op' = "play_turn" /\ ~ValidGuess(guess'))
          => UNCHANGED <<guesses, feedbacks, possible_codes>>]_vars

\* C11: the secrets construction can draw are exactly the codes of the universe
\* of the configured policy: the secret drawn is a code of all_codes, of distinct
\* symbols when duplicates are disallowed, and every code of the universe, those
\* that repeat a symbol included, is the secret of some constructed session.
C11_SecretSpaceIsUniverse ==
    /\ pc = "constructed" =>
          /\ secret_code \in Range(all_codes)
          /\ allow_duplicates \/ Distinct(secret_code)
    /\ (pc = "new" /\ ~SampleRaises(code_length)) =>
          \A c \in Range(universe(allow_duplicates, code_length)) :
              ENABLED (secret_code' = c /\ ConstructSession)

ColorIndex(c) == CHOOSE i \in 1..Len(COLORS) : COLORS[i] = c

\* Code a comes before code b in the lexicographic order of the colour indices.
LexLess(a, b) ==
    \E k \in 1..Len(a) :
        /\ \A i \in 1..(k - 1) : a[i] = b[i]
        /\ ColorIndex(a[k]) < ColorIndex(b[k])

RECURSIVE Power(_, _)
Power(b, e) == IF e = 0 THEN 1 ELSE b * Power(b, e - 1)

\* C15: the universe of a constructed session holds every tuple of code_length
\* colours (|COLORS|^code_length of them) when duplicates are allowed, every such
\* tuple of distinct colours when they are not, and lists them in strictly
\* increasing lexicographic order, hence without repetition.
C15_UniverseEnumerated ==
    pc = "constructed" =>
        /\ Range(all_codes) =
              IF allow_duplicates THEN TuplesOver(code_length, COLORS)
              ELSE {t \in TuplesOver(code_length, COLORS) : Distinct(t)}
        /\ allow_duplicates => Len(all_codes) = Power(Len(COLORS), code_length)
        /\ \A i \in 1..(Len(all_codes) - 1) : LexLess(all_codes[i], all_codes[i + 1])

\* Sessions of length 3 have been constructed under either policy.
C15_Witness ==
    /\ pc = "constructed"
    /\ code_length = 3
    /\ Len(all_codes) \in {120, 216}
    /\ all_codes[2] = <<"Red", "Green", "Blue">> \/ all_codes[2] = <<"Red", "Red", "Green">>

\* Some turn of the history was answered with (code_length, 0).
Terminal == \E i \in 1..Len(feedbacks) : feedbacks[i] = <<code_length, 0>>

\* C13: once a turn has been answered with (code_length, 0), no step changes
\* guesses, feedbacks or possible_codes.
C13_TerminalFrozen ==
    [][Terminal => UNCHANGED <<guesses, feedbacks, possible_codes>>]_vars

Reverse(seq) == [i \in 1..Len(seq) |-> seq[Len(seq) + 1 - i]]

\* A selector that is a function of the universe and of the set of candidates
\* alone: the only candidate, or else the first code of univ whose worst case
\* over the candidates is least.
SelectorOf(univ, candidates) ==
    IF Cardinality(candidates) = 1 THEN CHOOSE c \in candidates : TRUE
    ELSE LET worst == SubSeq([j \in 1..Len(univ) |-> WorstCaseOver(univ[j], candidates)],
                             1, Len(univ))
             k == CHOOSE i \in 1..Len(univ) :
                     /\ \A j \in 1..Len(univ) : worst[i] <= worst[j]
                     /\ \A j \in 1..(i - 1) : worst[i] < worst[j]
         IN univ[k]

\* What the search of next_guess returns when the candidates are stored as the
\* list codes.
SearchOver(codes) ==
    IF Len(codes) = 1 THEN codes[1]
    ELSE MinimaxLoop(all_codes,
                     SubSeq([i \in 1..Len(all_codes) |-> max_eliminations(all_codes[i], codes)],
                            1, Len(all_codes)))

\* C14: the code next_guess returns is the value of a function of all_codes and
\* of the set of candidates, whatever the history and the secret, and the
\* search returns the same code when the candidates are stored in another order.
C14_SelectorDeterminism ==
    [](op = "next_guess" =>
          /\ guess = SelectorOf(all_codes, Range(possible_codes))
          /\ guess = SearchOver(Reverse(possible_codes)))

\* next_guess has searched after two turns with several candidates left.
C14_Witness ==
    /\ op = "next_guess"
    /\ Len(guesses) = 2
    /\ Len(possible_codes) >= 3
    /\ guess # possible_codes[1]

\* C16: when next_guess is called with exactly one candidate left, it returns
\* that candidate, the candidate is the secret code, and the play_turn that
\* submits it returns True.
C16_SingleCandidateSolves ==
    [][(pc = "submit" /\ op = "next_guess" /\ Len(possible_codes) = 1) =>
          /\ guess = possible_codes[1]
          /\ guess = secret_code
          /\ solved']_vars

\* A game ended by the guess next_guess returned for its only candidate.
C16_Witness ==
    /\ pc = "done"
    /\ op = "play_turn"
    /\ Len(guesses) >= 3
    /\ Len(possible_codes) = 1
    /\ guess = possible_codes[1]
    /\ solved

\* C17: a call of next_guess changes nothing of the session, and no step at all
\* changes all_codes or secret_code.
C17_NextGuessReadOnly ==
    [][/\ UNCHANGED <<all_codes, secret_code>>
       /\ op' = "next_guess" => UNCHANGED session]_vars

\* next_guess has searched a candidate list that one turn had reduced.
C17_Witness ==
    /\ op = "next_guess"
    /\ Len(guesses) = 1
    /\ Len(possible_codes) > 1
    /\ Len(possible_codes) < Len(all_codes)
    /\ guess \in Range(possible_codes)

\* C18: guesses and feedbacks have the same length and feedbacks[i] is the
\* score of guesses[i] against the secret code; a play_turn appends the guess
\* and its score at the end and leaves the earlier entries alone; no other step
\* changes the history.
C18_HistoryAppends ==
    /\ [](/\ Len(guesses) = Len(feedbacks)
          /\ \A i \in 1..Len(guesses) :
                feedbacks[i] = calculate_feedback(guesses[i], secret_code))
    /\ [][IF op' = "play_turn"
          THEN /\ guesses' = Append(guesses, guess')
               /\ feedbacks' = Append(feedbacks, calculate_feedback(guess', secret_code))
          ELSE UNCHANGED <<guesses, feedbacks>>]_vars

\* Two turns with different guesses and different feedback are on record.
C18_Witness ==
    /\ op = "play_turn"
    /\ Len(guesses) = 2
    /\ Len(feedbacks) = 2
    /\ guesses[1] # guesses[2]
    /\ feedbacks[1] # feedbacks[2]
    /\ guesses[2] = guess

\* C19: a play_turn that submits the code next_guess has just returned and
\* does not solve the game leaves fewer candidates than there were.
C19_NextGuessShrinks ==
    [][(op = "next_guess" /\ op' = "play_turn" /\ guess' = guess /\ ~solved') =>
          Len(possible_codes') < Len(possible_codes)]_vars

\* The second turn submitted a code only next_guess could have supplied, did
\* not solve the game and removed candidates.
C19_Witness ==
    /\ op = "play_turn"
    /\ ~solved
    /\ Len(guesses) = 2
    /\ guess = guesses[2]
    /\ guess \notin GuessInputs(code_length)
    /\ Len(possible_codes) < Len(Filter(all_codes, guesses[1], feedbacks[1]))

\* C20: while no turn has been answered with (code_length, 0), the code
\* next_guess returns is none of the guesses on record.
C20_NoRepeatedGuess ==
    (op = "next_guess" /\ ~Terminal) => guess \notin Range(guesses)

\* next_guess has returned a candidate after two unsolved turns.
C20_Witness ==
    /\ op = "next_guess"
    /\ ~Terminal
    /\ Len(guesses) = 2
    /\ Len(possible_codes) > 1
    /\ guess \in Range(possible_codes)
    /\ guess \notin Range(guesses)

====
